---- MODULE Spec2Model ----
(***************************************************************************)
(* A model of the Arbiter of NCAR/agnoio: the serialised command/response  *)
(* controller over one byte stream (IDoIO), its accumulator goroutine      *)
(* readUntil, and Command.Bytes.                                           *)
(*                                                                         *)
(* The repository holds two revisions of the Arbiter that implement both   *)
(* Simple and Control:                                                     *)
(*   "r1"  src/arbiter.go, lines 95-302                                    *)
(*   "r2"  src/unnamed/part_003                                            *)
(* They differ in Close, in the errors they build and in readUntil's loop. *)
(* The variable rev says which one a behaviour runs; it never changes.     *)
(***************************************************************************)
EXTENDS Integers, Sequences, FiniteSets, TLC

\* ------------------------------------------------------------------ bounds
MaxOps == 2       \* calls started on the Arbiter, all callers together
MaxArrive == 2    \* bytes the remote end sends in reply, all replies together

\* The goroutines that call the Arbiter's methods.
Callers == {"c1", "c2"}
Free == "free"
Revs == {"r1", "r2"}
\* A nil []byte or *regexp.Regexp; <<>> is the empty, non-nil one.
Nil == <<"nil">>
\* An error with no cause wrapped in it.
NoCause == "-"

\* The remote end answers each message it reads: "b" to the message "c",
\* "a" to any other message of one byte (simpleHandler: "meow" to "cat", "woof"
\* to anything else), and Reply to a longer message (arbHandler).
Reply == <<"a", "b">>
Cat == <<"c">>
Dog == <<"d">>
Meow == <<"b">>
Woof == <<"a">>
ReplyTo(msg) ==
    IF msg = <<>> THEN <<>>
    ELSE IF msg = Cat THEN Meow
    ELSE IF Len(msg) = 1 THEN Woof
    ELSE Reply

\* ------------------------------------------------------------------ errors
\* An error value: what it is, whether it can be cast to net.Error, and the
\* flags its Temporary() and Timeout() methods then return.
Err(kind, net, temporary, timeout, cause) ==
    [kind |-> kind, net |-> net, temporary |-> temporary, timeout |-> timeout,
     cause |-> cause]

NoErr == Err("nil", FALSE, FALSE, FALSE, NoCause)

newErr(temporary, timeout, kind, cause) == Err(kind, TRUE, temporary, timeout, cause)

\* errors.New / errors.Errorf / errors.Wrap / fmt.Errorf: a plain error, which
\* has no Timeout or Temporary method.
plainErr(kind, cause) == Err(kind, FALSE, FALSE, FALSE, cause)

\* IsTemporary and IsTimeout: whether the call panicked, and the value it
\* returned if it did not (value means nothing after a panic). The flag of a
\* net.Error; false for any other error; a panic for nil.
IsTimeout_NoNilCheck(e) == [panic |-> FALSE, value |-> e.net /\ e.timeout]

IsTemporary(e) ==
    IF e = NoErr THEN [panic |-> TRUE, value |-> FALSE]
    ELSE [panic |-> FALSE, value |-> e.net /\ e.temporary]

IsTimeout(e) ==
    IF e = NoErr THEN [panic |-> TRUE, value |-> FALSE]
    ELSE [panic |-> FALSE, value |-> e.net /\ e.timeout]

ErrBytesArgs == plainErr("ErrBytesArgs", NoCause)

ErrBytesFormat == plainErr("ErrBytesFormat", NoCause)

ErrErrorResponse == newErr(FALSE, FALSE, "ErrErrorResponse", NoCause)

\* ------------------------------------------------------- bytes and patterns
RECURSIVE IsPrefix(_, _)
IsPrefix(p, s) ==
    IF p = <<>> THEN TRUE
    ELSE IF s = <<>> THEN FALSE
    ELSE Head(p) = Head(s) /\ IsPrefix(Tail(p), Tail(s))

\* bytes.Contains(raw, marker); an unanchored literal regexp's Match is the same.
RECURSIVE Contains(_, _)
Contains(raw, marker) ==
    IF IsPrefix(marker, raw) THEN TRUE
    ELSE IF raw = <<>> THEN FALSE
    ELSE Contains(Tail(raw), marker)

\* ----------------------------------------------------------- Command.Bytes
\* The Command of a behaviour of the Arbiter: its Prototype is "A%d";
\* CommandRegexp is nil or ^A1; Response and Error are nil or literal patterns.
Prototype == <<"A", "%d">>
Verbs == {"%d", "%s"}
Command(response, error, commandRegexp) ==
    [Prototype |-> Prototype, Response |-> response, Error |-> error,
     CommandRegexp |-> commandRegexp]
Commands ==
    {Command(<<"a">>, <<"a", "b">>, <<"A", "1">>),
     Command(<<"a", "b">>, Nil, <<"A", "1">>),
     Command(<<"b">>, <<"a">>, Nil),
     Command(Nil, <<"b">>, Nil),
     Command(Nil, Nil, Nil)}

\* Argument lists a caller passes to Control: none, the integer 1 or 2.
IntArg(digit) == [type |-> "%d", bytes |-> <<digit>>]
ArgLists == {<<>>, <<IntArg("1")>>, <<IntArg("2")>>}

\* Commands and arguments for calls of Command.Bytes itself: prototypes with no
\* verb, one verb or two, and up to MaxArgs arguments that are integers or
\* strings, one of the strings holding the text "%!".
StrArg(bytes) == [type |-> "%s", bytes |-> bytes]
MaxArgs == 2
Prototypes == {Prototype, <<"A">>, <<"%s">>, <<"%d", "%s">>}
BytesCommands ==
    {[Command(Nil, Nil, re) EXCEPT !.Prototype = proto] :
         proto \in Prototypes, re \in {Nil, <<"A", "1">>}}
ArgValues == {IntArg("1"), IntArg("2"), StrArg(<<"A">>), StrArg(<<"%", "!">>)}
BytesArgLists == UNION {[1..n -> ArgValues] : n \in 0..MaxArgs}

\* fmt.Sprintf(proto, args...) formats without an error: every verb has an
\* argument of its type and no argument is left over.
RECURSIVE Formats(_, _)
Formats(proto, args) ==
    IF proto = <<>> THEN args = <<>>
    ELSE IF Head(proto) \in Verbs
         THEN /\ args # <<>>
              /\ Head(args).type = Head(proto)
              /\ Formats(Tail(proto), Tail(args))
         ELSE Formats(Tail(proto), args)

\* fmt.Sprintf(proto, args...): a verb with no argument left, or with an
\* argument of the wrong type, and arguments left over, are rendered as text
\* that starts with "%!".
RECURSIVE Sprintf(_, _)
Sprintf(proto, args) ==
    IF proto = <<>>
    THEN IF args = <<>> THEN <<>> ELSE <<"%", "!", "(", "E", "X", "T", "R", "A", ")">>
    ELSE IF Head(proto) \in Verbs
         THEN IF args = <<>>
              THEN <<"%", "!", "(", "M", "I", "S", "S", "I", "N", "G", ")">>
                       \o Sprintf(Tail(proto), args)
              ELSE IF Head(args).type = Head(proto)
                   THEN Head(args).bytes \o Sprintf(Tail(proto), Tail(args))
                   ELSE <<"%", "!">> \o Head(args).bytes
                            \o Sprintf(Tail(proto), Tail(args))
         ELSE <<Head(proto)>> \o Sprintf(Tail(proto), args)

\* regexp.MatchString for ^literal.
MatchString(re, str) == IsPrefix(re, str)

\* Command.Bytes without the test for a nil CommandRegexp.
Bytes_NoNilCheck(c, args) ==
    LET str == Sprintf(c.Prototype, args)
    IN  IF Contains(str, <<"%", "!">>) THEN [bytes |-> str, err |-> ErrBytesArgs]
        ELSE IF ~MatchString(c.CommandRegexp, str)
             THEN [bytes |-> str, err |-> ErrBytesFormat]
             ELSE [bytes |-> str, err |-> NoErr]

\* Command.Bytes: the rendered bytes and the error.
Bytes(c, args) ==
    LET str == Sprintf(c.Prototype, args)
    IN  IF Contains(str, <<"%", "!">>) THEN [bytes |-> str, err |-> ErrBytesArgs]
        ELSE IF c.CommandRegexp # Nil /\ ~MatchString(c.CommandRegexp, str)
             THEN [bytes |-> str, err |-> ErrBytesFormat]
             ELSE [bytes |-> str, err |-> NoErr]

\* ------------------------------------------------------------- ExitCriteria
\* cf with the two criteria tested in the other order.
cf_SuccessFirst(c, raw) ==
    IF c.Response # Nil /\ Contains(raw, c.Response) THEN "Success"
    ELSE IF c.Error # Nil /\ Contains(raw, c.Error) THEN "Failure"
    ELSE "Insufficient"

\* The CheckFunc cf of Simple (bytes.Contains) and of Control (Regexp.Match):
\* the failure criterion first, then the success criterion.
cf(c, raw) ==
    IF c.Error # Nil /\ Contains(raw, c.Error) THEN "Failure"
    ELSE IF c.Response # Nil /\ Contains(raw, c.Response) THEN "Success"
    ELSE "Insufficient"

\* ---------------------------------------------------------------- the stream
\* The wrapped IDoIO, after NetClient, with the remote end behind it: the
\* bytes that have arrived and nobody has read (inbuf), the bytes of its
\* replies the remote end has still to deliver (pending), whether the remote
\* end has hung up (peerClosed), whether the stream's own context is cancelled
\* (ctxDone), whether it holds a connection (conn), and how many bytes the
\* remote end has sent in reply so far (arrived, which only bounds the model:
\* it is MaxArrive once no byte can arrive any more).
\* Two fields record history for the exchange that holds the lock: how many
\* unread bytes the stream held when the exchange began (had, until the command
\* is written), and how many of those are still at the head of inbuf (stale).
StreamInit ==
    [inbuf |-> <<>>, pending |-> <<>>, peerClosed |-> FALSE, ctxDone |-> FALSE,
     conn |-> TRUE, arrived |-> 0, stale |-> 0, had |-> 0, kind |-> "net"]

\* The two implementations of IDoIO: NetClient and SerialClient. The Arbiter
\* of the tests wraps a NetClient.
Kinds == {"net", "serial"}

\* The stream as an exchange finds it when it begins, and as it leaves it.
ExchangeBegin(s) == [s EXCEPT !.stale = Len(s.inbuf), !.had = Len(s.inbuf)]
ExchangeEnd(s) == [s EXCEPT !.stale = 0, !.had = 0]

\* The remote end has room, within MaxArrive, to answer the message msg.
CanReply(s, msg) ==
    s.peerClosed \/ s.ctxDone \/ ~s.conn \/ s.arrived + Len(ReplyTo(msg)) <= MaxArrive

\* The remote end reads msg and queues its reply, unless the connection is gone.
Receive(s, msg) ==
    IF s.peerClosed \/ s.ctxDone \/ ~s.conn THEN s
    ELSE [s EXCEPT !.pending = s.pending \o ReplyTo(msg),
                   !.arrived = s.arrived + Len(ReplyTo(msg))]

\* A Close that returns on a cancelled context without dropping the handle.
StreamClose_KeepsHandle(s) ==
    IF s.ctxDone THEN s
    ELSE [s EXCEPT !.conn = FALSE, !.inbuf = <<>>, !.pending = <<>>,
                   !.peerClosed = FALSE, !.stale = 0]

\* NetClient.Close cancels the stream's context and drops the connection;
\* SerialClient.Close drops the connection and leaves the context alone.
StreamClose(s) ==
    IF s.kind = "net"
    THEN [s EXCEPT !.ctxDone = TRUE, !.conn = FALSE, !.inbuf = <<>>, !.pending = <<>>,
                   !.peerClosed = FALSE, !.arrived = MaxArrive, !.stale = 0]
    ELSE [s EXCEPT !.conn = FALSE, !.inbuf = <<>>, !.pending = <<>>,
                   !.peerClosed = FALSE, !.stale = 0]

\* NetClient.Open: refused once the context is cancelled; otherwise the old
\* connection is dropped and a new one dialled.
StreamOpen(s) ==
    IF s.ctxDone
    THEN [err |-> newErr(FALSE, FALSE, "ctx", "Canceled"), s |-> s]
    ELSE [err |-> NoErr,
          s |-> [s EXCEPT !.conn = TRUE, !.inbuf = <<>>, !.pending = <<>>,
                          !.peerClosed = FALSE, !.stale = 0]]

\* The errors of a read that delivers nothing: the read deadline passed (a
\* net.Error, timeout and temporary), or the remote end hung up (io.EOF, which
\* is no net.Error).
ErrIOTimeout == newErr(TRUE, TRUE, "i/o timeout", NoCause)
ErrEOF == plainErr("EOF", NoCause)
ErrStreamCtx == newErr(FALSE, FALSE, "ctx", "Canceled")
\* SerialClient's errors: no port is open; a read that delivers nothing (io.EOF
\* wrapped as a timeout); and newErr wrapped around the nil that closing the
\* port returned, which is a non-nil error value.
ErrBroken == newErr(FALSE, FALSE, "broken connection", NoCause)
ErrSerialEOF == newErr(TRUE, TRUE, "EOF", NoCause)
ErrWrappedNil == newErr(FALSE, FALSE, "nil", NoCause)

\* What Close of the stream returns. NetClient: the result of conn.Close, or
\* nil with no connection. SerialClient: the context's error once it is
\* cancelled, else newErr around the result of conn.Close, or nil with no port.
StreamCloseErr(s) ==
    IF s.kind = "net" THEN NoErr
    ELSE IF s.ctxDone THEN ErrStreamCtx
         ELSE IF s.conn THEN ErrWrappedNil ELSE NoErr

\* newErr around the error of a port that could not be closed.
ErrPortClose == newErr(FALSE, FALSE, "cannot close port", NoCause)

\* The results Close of the stream can return: for an open serial port on a
\* live context the port closes or, as the test's port does, refuses to.
StreamCloseErrs(s) ==
    IF s.kind = "serial" /\ ~s.ctxDone /\ s.conn
    THEN {StreamCloseErr(s), ErrPortClose}
    ELSE {StreamCloseErr(s)}

\* One ReadByte of a bufio.Reader over the stream (NetClient.Read beneath it):
\* the byte read, or the error, and the stream afterwards.
\* A read that does not look at the stream's context.
ReadByte_IgnoresContext(s) ==
    IF s.inbuf # <<>>
    THEN [b |-> <<Head(s.inbuf)>>, err |-> NoErr,
          s |-> [s EXCEPT !.inbuf = Tail(s.inbuf),
                          !.stale = IF s.stale > 0 THEN s.stale - 1 ELSE 0]]
    ELSE [b |-> Nil, err |-> IF s.conn THEN NoErr ELSE ErrBroken, s |-> s]

ReadByte(s) ==
    IF s.ctxDone THEN [b |-> Nil, err |-> ErrStreamCtx, s |-> StreamClose(s)]
    ELSE IF s.kind = "serial" /\ ~s.conn THEN [b |-> Nil, err |-> ErrBroken, s |-> s]
    ELSE IF s.inbuf # <<>>
         THEN [b |-> <<Head(s.inbuf)>>, err |-> NoErr,
               s |-> [s EXCEPT !.inbuf = Tail(s.inbuf),
                               !.stale = IF s.stale > 0 THEN s.stale - 1 ELSE 0]]
         ELSE IF s.kind = "serial" THEN [b |-> Nil, err |-> ErrSerialEOF, s |-> s]
         ELSE IF s.peerClosed THEN [b |-> Nil, err |-> ErrEOF, s |-> s]
              ELSE [b |-> Nil, err |-> ErrIOTimeout, s |-> s]

\* Write(msg) of the stream: the outcomes an IDoIO may produce: all of msg
\* written; all but its last byte written and a nil error; an error. The
\* remote end reads what was written.
ErrWrite == newErr(FALSE, FALSE, "write error", NoCause)
WriteOutcomes(s, msg) ==
    IF s.ctxDone THEN {[n |-> 0, err |-> ErrStreamCtx, s |-> StreamClose(s)]}
    ELSE IF s.kind = "serial" /\ ~s.conn THEN {[n |-> 0, err |-> ErrBroken, s |-> s]}
    ELSE {[n |-> Len(msg), err |-> NoErr, s |-> Receive(s, msg)],
          [n |-> 0, err |-> ErrWrite, s |-> s]}
         \cup (IF Len(msg) > 0
               THEN {[n |-> Len(msg) - 1, err |-> NoErr,
                      s |-> Receive(s, SubSeq(msg, 1, Len(msg) - 1))]}
               ELSE {})

\* ------------------------------------------------------------------- state
VARIABLES
    rev,       \* the revision of the Arbiter this behaviour runs
    cmd,       \* the Command (patterns and markers) the calls are made with
    mux,       \* Arb.mux: Free, or the caller that holds it
    ctxDone,   \* Arb.ctx is cancelled
    caller,    \* each caller's position in its current call, and its last Response
    acc,       \* the readUntil goroutines started so far, in order
    stream,    \* Arb.idotoo
    ops        \* calls started so far

vars == <<rev, cmd, mux, ctxDone, caller, acc, stream, ops>>

Exchanges == {"Control", "Simple"}

NoRsp == [set |-> FALSE, err |-> NoErr, bytes |-> <<>>]
Response(err, bytes) == [set |-> TRUE, err |-> err, bytes |-> bytes]

\* A caller: where it is in its call (pc), the method called (op), Control's
\* arguments (args), the bytes to write (out), the accumulator whose channel it
\* waits on (ch), and the Response it holds once the call has returned.  late
\* is history: the Arbiter's context was already cancelled when the call began.
Idle == [pc |-> "idle", op |-> "none", args |-> <<>>, out |-> <<>>, ch |-> 0, rsp |-> NoRsp,
         late |-> FALSE]
Return(op, args, rsp) == [Idle EXCEPT !.pc = "returned", !.op = op, !.args = args, !.rsp = rsp]

\* Payloads a caller passes to Simple.
Payloads == {<<>>, Cat, Dog}

Init ==
    /\ rev \in Revs
    /\ cmd \in Commands
    /\ mux = Free
    /\ ctxDone = FALSE
    /\ caller = [c \in Callers |-> Idle]
    /\ acc = <<>>
    /\ stream = StreamInit
    /\ ops = 0

\* A caller that has returned takes its Response before anything else happens
\* (see Done): every other action waits for that.
NoneReturned == \A c \in Callers : caller[c].pc # "returned"

\* Callers are alike, so it is the first of the idle callers that makes the
\* next call.
MayCall(c) ==
    /\ caller[c].pc = "idle"
    /\ ops < MaxOps
    /\ c = "c1" \/ caller["c1"].pc # "idle"

\* ---------------------------------------------------------- Control, Simple
\* Control carrying on with the rendered bytes whatever Command.Bytes reports.
ControlBegin_IgnoreRenderError(c) ==
    /\ NoneReturned
    /\ MayCall(c)
    /\ mux = Free
    /\ mux' = c
    /\ \E args \in ArgLists :
          /\ CanReply(stream, Bytes(cmd, args).bytes)
          /\ caller' = [caller EXCEPT ![c] =
                        [Idle EXCEPT !.op = "Control", !.args = args,
                                     !.out = Bytes(cmd, args).bytes, !.pc = "drain", !.late = ctxDone]]
    /\ stream' = ExchangeBegin(stream)
    /\ ops' = ops + 1
    /\ UNCHANGED <<rev, cmd, ctxDone, acc>>

\* Control up to clearReadBuffer: Command.Bytes and the return on its error,
\* else a.mux.Lock().
ControlBegin(c) ==
    /\ NoneReturned
    /\ MayCall(c)
    /\ \E args \in ArgLists :
          LET r == Bytes(cmd, args)
          IN  IF r.err # NoErr
              THEN /\ caller' = [caller EXCEPT ![c] =
                                     Return("Control", args, Response(r.err, <<>>))]
                   /\ mux' = mux
                   /\ stream' = stream
              ELSE /\ mux = Free
                   /\ CanReply(stream, r.bytes)
                   /\ mux' = c
                   /\ caller' = [caller EXCEPT ![c] =
                          [Idle EXCEPT !.op = "Control", !.args = args,
                                       !.out = r.bytes, !.pc = "drain", !.late = ctxDone]]
                   /\ stream' = ExchangeBegin(stream)
    /\ ops' = ops + 1
    /\ UNCHANGED <<rev, cmd, ctxDone, acc>>

\* Simple up to clearReadBuffer: a.mux.Lock().
SimpleBegin(c) ==
    /\ NoneReturned
    /\ MayCall(c)
    /\ mux = Free
    /\ mux' = c
    /\ \E payload \in Payloads :
          /\ CanReply(stream, payload)
          /\ caller' = [caller EXCEPT ![c] =
                 [Idle EXCEPT !.op = "Simple", !.out = payload, !.pc = "drain", !.late = ctxDone]]
    /\ stream' = ExchangeBegin(stream)
    /\ ops' = ops + 1
    /\ UNCHANGED <<rev, cmd, ctxDone, acc>>

\* clearReadBuffer returning at once, without a read.
Drain_KeepsBytes(c) ==
    /\ NoneReturned
    /\ caller[c].pc = "drain"
    /\ caller' = [caller EXCEPT ![c].pc = "write"]
    /\ UNCHANGED <<rev, cmd, mux, ctxDone, acc, stream, ops>>

\* One iteration of clearReadBuffer / clearBuffer: a byte is read and dropped,
\* or the read fails and the loop ends.
Drain(c) ==
    /\ NoneReturned
    /\ caller[c].pc = "drain"
    /\ LET r == ReadByte(stream)
       IN  /\ stream' = r.s
           /\ caller' = [caller EXCEPT ![c].pc =
                             IF r.err = NoErr THEN "drain" ELSE "write"]
    /\ UNCHANGED <<rev, cmd, mux, ctxDone, acc, ops>>

\* The Response of a failed write: r1 builds a new error with fmt.Errorf, r2
\* returns the write's own error.
WriteFailure(w) ==
    IF rev = "r1" THEN Response(plainErr("unable to write full message", w.err.kind), <<>>)
    ELSE Response(w.err, <<>>)

\* A new readUntil goroutine for caller c: context.WithTimeout(a.ctx, timeout),
\* the command it was started for (out), an empty buffer, nothing sent. spin is
\* the parity of the number of times in
\* a row the inner loop has read again after an error.
NoStatus == [raw |-> <<>>, err |-> NoErr]
NewAcc(c) ==
    [owner |-> c, out |-> caller[c].out, pc |-> "select", rcvd |-> <<>>, sent |-> 0,
     st |-> NoStatus, expired |-> FALSE, closed |-> FALSE, spin |-> 0]

\* The write of the command with readUntil started whatever the write returns.
Write_StartsAnyway(c) ==
    /\ NoneReturned
    /\ caller[c].pc = "write"
    /\ \E w \in WriteOutcomes(stream, caller[c].out) : stream' = [w.s EXCEPT !.had = 0]
    /\ caller' = [caller EXCEPT ![c].pc = "recv", ![c].args = <<>>,
                                 ![c].out = <<>>, ![c].ch = Len(acc) + 1]
    /\ acc' = Append(acc, NewAcc(c))
    /\ UNCHANGED <<rev, cmd, mux, ctxDone, ops>>

\* The write of the command, and then either the return on a failed or short
\* write (with the deferred Unlock), or the start of readUntil and the wait on
\* dataChan.
Write(c) ==
    /\ NoneReturned
    /\ caller[c].pc = "write"
    /\ \E w \in WriteOutcomes(stream, caller[c].out) :
          /\ IF w.err # NoErr \/ Len(caller[c].out) # w.n
             THEN /\ caller' = [caller EXCEPT ![c] =
                                    Return(caller[c].op, <<>>, WriteFailure(w))]
                  /\ mux' = Free
                  /\ acc' = acc
                  /\ stream' = ExchangeEnd(w.s)
             ELSE /\ stream' = [w.s EXCEPT !.had = 0]
                  /\ caller' = [caller EXCEPT ![c].pc = "recv", ![c].args = <<>>,
                                              ![c].out = <<>>, ![c].ch = Len(acc) + 1]
                  /\ mux' = mux
                  /\ acc' = Append(acc, NewAcc(c))
    /\ UNCHANGED <<rev, cmd, ctxDone, ops>>

\* ----------------------------------------------------------------- readUntil
\* The errors readUntil builds: r2 with newErr, r1 with errors.Wrap/errors.New.
CancelledErr ==
    IF rev = "r2" THEN newErr(FALSE, FALSE, "Cancelled", "Canceled")
    ELSE plainErr("Cancelled", "Canceled")

TimedOutErr(cause) ==
    IF rev = "r2" THEN newErr(TRUE, TRUE, "TimedOut", cause)
    ELSE plainErr("TimedOut", cause)

FailureErr ==
    IF rev = "r2" THEN ErrErrorResponse
    ELSE plainErr("Command received error response", NoCause)

ReadErr == newErr(FALSE, TRUE, "Error Reading from buffer", NoCause)

\* A status that leaves the accumulated bytes behind.
Send_NoBytes(a, raw, err) ==
    [a EXCEPT !.pc = "send", !.st = [raw |-> <<>>, err |-> err], !.spin = 0]

\* The status readUntil puts on dataChan: Response{Bytes: raw, Error: err}.
Send(a, raw, err) ==
    [a EXCEPT !.pc = "send", !.st = [raw |-> raw, err |-> err], !.spin = 0]

\* timeoutctx is a child of a.ctx: it is done once its deadline has passed or
\* a.ctx is cancelled, and its Err() tells which came first.
TimeoutDone(a) == a.expired \/ ctxDone
TimeoutCause(a) == IF a.expired THEN "DeadlineExceeded" ELSE "Canceled"

\* The select at the top of the loop: Go picks any one of the cases that are
\* ready, and the default case only when none is.
SelectOutcomes(a) ==
    {Send(a, a.rcvd, CancelledErr) : x \in {1} \cap (IF ctxDone THEN {1} ELSE {})}
    \cup {Send(a, a.rcvd, TimedOutErr(TimeoutCause(a))) :
              x \in {1} \cap (IF TimeoutDone(a) THEN {1} ELSE {})}
    \cup {[a EXCEPT !.pc = "read"] :
              x \in {1} \cap (IF ~ctxDone /\ ~TimeoutDone(a) THEN {1} ELSE {})}

\* The switch with checkFunc given only the newest byte read.
Classify_NewestByte(a) ==
    LET verdict == cf(cmd, IF a.rcvd = <<>> THEN <<>> ELSE <<a.rcvd[Len(a.rcvd)]>>)
    IN  IF verdict = "Failure" THEN Send(a, a.rcvd, FailureErr)
        ELSE IF verdict = "Success" THEN Send(a, a.rcvd, NoErr)
        ELSE [a EXCEPT !.pc = "select", !.spin = 0]

\* The switch on checkFunc(raw) after the inner loop.
Classify(a) ==
    LET verdict == cf(cmd, a.rcvd)
    IN  IF verdict = "Failure" THEN Send(a, a.rcvd, FailureErr)
        ELSE IF verdict = "Success" THEN Send(a, a.rcvd, NoErr)
        ELSE [a EXCEPT !.pc = "select", !.spin = 0]

\* What the inner loop does with the error of a ReadByte. r1 leaves the loop on
\* any error. r2 leaves it on a net.Error that is a timeout, gives up on a
\* net.Error that is neither a timeout nor temporary, and reads again on any
\* other error.
OnReadError(a, e) ==
    IF rev = "r1" THEN Classify(a)
    ELSE IF e.net /\ e.timeout THEN Classify(a)
    ELSE IF e.net /\ ~e.temporary THEN Send(a, a.rcvd, ReadErr)
    ELSE [a EXCEPT !.spin = 1 - a.spin]

\* readUntil after its send was received: r2 always returns (and the deferred
\* close(dataChan) runs); r1 returns except after sending Success, where the
\* loop goes on.
AfterSend(a) ==
    IF rev = "r1" /\ a.st.err = NoErr
    THEN [a EXCEPT !.sent = a.sent + 1, !.pc = "select", !.st = NoStatus]
    ELSE [a EXCEPT !.sent = a.sent + 1, !.pc = "done", !.closed = TRUE,
                   !.st = NoStatus, !.rcvd = <<>>]

AccSelect(i) ==
    /\ NoneReturned
    /\ acc[i].pc = "select"
    /\ \E a \in SelectOutcomes(acc[i]) : acc' = [acc EXCEPT ![i] = a]
    /\ UNCHANGED <<rev, cmd, mux, ctxDone, caller, stream, ops>>

\* One ReadByte of the inner loop.
AccRead(i) ==
    /\ NoneReturned
    /\ acc[i].pc = "read"
    /\ LET r == ReadByte(stream)
       IN  /\ stream' = r.s
           /\ acc' = [acc EXCEPT ![i] =
                  IF r.err = NoErr
                  THEN [acc[i] EXCEPT !.rcvd = acc[i].rcvd \o r.b, !.spin = 0]
                  ELSE OnReadError(acc[i], r.err)]
    /\ UNCHANGED <<rev, cmd, mux, ctxDone, caller, ops>>

\* A caller that sends its command again when the status is an error.
Handoff_Retry(i) ==
    /\ NoneReturned
    /\ acc[i].pc = "send"
    /\ caller[acc[i].owner].pc = "recv"
    /\ caller[acc[i].owner].ch = i
    /\ IF acc[i].st.err # NoErr
       THEN /\ caller' = [caller EXCEPT ![acc[i].owner].pc = "write",
                                        ![acc[i].owner].out = acc[i].out]
            /\ mux' = mux
            /\ stream' = stream
       ELSE /\ caller' = [caller EXCEPT ![acc[i].owner] =
                              Return(caller[acc[i].owner].op, <<>>,
                                     Response(acc[i].st.err, acc[i].st.raw))]
            /\ mux' = Free
            /\ stream' = ExchangeEnd(stream)
    /\ acc' = [acc EXCEPT ![i] = AfterSend(acc[i])]
    /\ UNCHANGED <<rev, cmd, ctxDone, ops>>

\* dataChan is unbuffered: the send of readUntil and the receive of the caller
\* waiting on that channel happen together; the caller then returns the
\* Response and its deferred Unlock runs.
Handoff(i) ==
    /\ NoneReturned
    /\ acc[i].pc = "send"
    /\ caller[acc[i].owner].pc = "recv"
    /\ caller[acc[i].owner].ch = i
    /\ caller' = [caller EXCEPT ![acc[i].owner] =
                      Return(caller[acc[i].owner].op, <<>>,
                             Response(acc[i].st.err, acc[i].st.raw))]
    /\ mux' = Free
    /\ acc' = [acc EXCEPT ![i] = AfterSend(acc[i])]
    /\ stream' = ExchangeEnd(stream)
    /\ UNCHANGED <<rev, cmd, ctxDone, ops>>

\* The deadline of accumulator i's timeoutctx has passed. readUntil looks at
\* timeoutctx only in its select, so that is where the model lets it pass.
Deadline(i) ==
    /\ NoneReturned
    /\ acc[i].pc = "select"
    /\ ~acc[i].expired
    /\ acc' = [acc EXCEPT ![i].expired = TRUE]
    /\ UNCHANGED <<rev, cmd, mux, ctxDone, caller, stream, ops>>

\* Arb.Read returning with the lock still held.
Read_KeepsLock(c) ==
    /\ NoneReturned
    /\ MayCall(c)
    /\ mux = Free
    /\ mux' = c
    /\ LET r == ReadByte(stream)
       IN  /\ stream' = r.s
           /\ caller' = [caller EXCEPT ![c] =
                  Return("Read", <<>>, Response(r.err, IF r.err = NoErr THEN r.b ELSE <<>>))]
    /\ ops' = ops + 1
    /\ UNCHANGED <<rev, cmd, ctxDone, acc>>

\* ------------------------------------------------- Read, Write, Open, Close
\* Arb.Read: one byte is asked for, under the lock.
Read(c) ==
    /\ NoneReturned
    /\ MayCall(c)
    /\ mux = Free
    /\ LET r == ReadByte(stream)
       IN  /\ stream' = r.s
           /\ caller' = [caller EXCEPT ![c] =
                  Return("Read", <<>>, Response(r.err, IF r.err = NoErr THEN r.b ELSE <<>>))]
    /\ ops' = ops + 1
    /\ UNCHANGED <<rev, cmd, mux, ctxDone, acc>>

\* Arb.Write of one byte, under the lock.
PassWrite(c) ==
    /\ NoneReturned
    /\ MayCall(c)
    /\ mux = Free
    /\ CanReply(stream, Dog)
    /\ \E w \in WriteOutcomes(stream, Dog) :
          /\ stream' = w.s
          /\ caller' = [caller EXCEPT ![c] = Return("Write", <<>>, Response(w.err, <<>>))]
    /\ ops' = ops + 1
    /\ UNCHANGED <<rev, cmd, mux, ctxDone, acc>>

\* Arb.Open, under the lock.
Open(c) ==
    /\ NoneReturned
    /\ MayCall(c)
    /\ mux = Free
    /\ stream' = StreamOpen(stream).s
    /\ caller' = [caller EXCEPT ![c] =
                      Return("Open", <<>>, Response(StreamOpen(stream).err, <<>>))]
    /\ ops' = ops + 1
    /\ UNCHANGED <<rev, cmd, mux, ctxDone, acc>>

\* Arb.Close up to the lock: r2 cancels the Arbiter's context first. The caller
\* still holds the result of the Close it made just before, if it made one.
CloseBegin(c) ==
    /\ NoneReturned
    /\ MayCall(c)
    /\ caller' = [caller EXCEPT ![c] = [caller[c] EXCEPT !.op = "Close", !.pc = "lock"]]
    /\ ctxDone' = IF rev = "r2" THEN TRUE ELSE ctxDone
    /\ ops' = ops + 1
    /\ UNCHANGED <<rev, cmd, mux, acc, stream>>

\* Arb.Close under the lock: r2 closes the stream, r1 calls the stream's Open.
Close(c) ==
    /\ NoneReturned
    /\ caller[c].pc = "lock"
    /\ mux = Free
    /\ LET r == IF rev = "r2" THEN [err |-> StreamCloseErr(stream), s |-> StreamClose(stream)]
                ELSE StreamOpen(stream)
       IN  /\ stream' = r.s
           /\ caller' = [caller EXCEPT ![c] = Return("Close", <<>>, Response(r.err, <<>>))]
    /\ UNCHANGED <<rev, cmd, mux, ctxDone, acc, ops>>

\* The caller takes the Response of its call (for Read, Write, Open and Close:
\* their results) and may call again. Taking it touches nothing shared, so the
\* model lets it happen right after the return, before any other step. Of its
\* calls the caller remembers only the result of a Close, until its next call.
Done(c) ==
    /\ caller[c].pc = "returned"
    /\ caller' = [caller EXCEPT ![c] =
                      IF caller[c].op = "Close"
                      THEN [Idle EXCEPT !.op = "Close", !.rsp = caller[c].rsp]
                      ELSE Idle]
    /\ UNCHANGED <<rev, cmd, mux, ctxDone, acc, stream, ops>>

\* -------------------------------------------------------------- environment
\* The next byte of the remote end's replies arrives.
Arrive ==
    /\ NoneReturned
    /\ stream.conn /\ ~stream.peerClosed /\ ~stream.ctxDone
    /\ stream.pending # <<>>
    /\ stream' = [stream EXCEPT !.inbuf = Append(stream.inbuf, Head(stream.pending)),
                                 !.pending = Tail(stream.pending)]
    /\ UNCHANGED <<rev, cmd, mux, ctxDone, caller, acc, ops>>

\* The remote end hangs up.
PeerClose ==
    /\ NoneReturned
    /\ stream.conn /\ ~stream.peerClosed /\ ~stream.ctxDone
    /\ stream' = [stream EXCEPT !.peerClosed = TRUE, !.pending = <<>>,
                                 !.arrived = MaxArrive]
    /\ UNCHANGED <<rev, cmd, mux, ctxDone, caller, acc, ops>>

\* The CancelFunc that Arbitrate returned is called.
CancelArb ==
    /\ NoneReturned
    /\ ~ctxDone
    /\ ctxDone' = TRUE
    /\ UNCHANGED <<rev, cmd, mux, caller, acc, stream, ops>>

\* The context given to NewArbiter is cancelled: the Arbiter's and the
\* stream's contexts are both its children.
CancelParent ==
    /\ NoneReturned
    /\ ~ctxDone \/ ~stream.ctxDone
    /\ ctxDone' = TRUE
    /\ stream' = [stream EXCEPT !.ctxDone = TRUE, !.inbuf = <<>>, !.pending = <<>>,
                                 !.peerClosed = FALSE, !.arrived = MaxArrive,
                                 !.stale = 0]
    /\ UNCHANGED <<rev, cmd, mux, caller, acc, ops>>

Next ==
    \/ \E c \in Callers : ControlBegin(c)
    \/ \E c \in Callers : SimpleBegin(c)
    \/ \E c \in Callers : Drain(c)
    \/ \E c \in Callers : Write(c)
    \/ \E c \in Callers : Read(c)
    \/ \E c \in Callers : PassWrite(c)
    \/ \E c \in Callers : Open(c)
    \/ \E c \in Callers : CloseBegin(c)
    \/ \E c \in Callers : Close(c)
    \/ \E c \in Callers : Done(c)
    \/ \E i \in DOMAIN acc : AccSelect(i)
    \/ \E i \in DOMAIN acc : AccRead(i)
    \/ \E i \in DOMAIN acc : Handoff(i)
    \/ \E i \in DOMAIN acc : Deadline(i)
    \/ Arrive
    \/ PeerClose
    \/ CancelArb
    \/ CancelParent

Spec == Init /\ [][Next]_vars

\* The goroutines Go's scheduler keeps running: a caller inside a call, and
\* readUntil. When a call is made, and what the remote end and the contexts'
\* owners do, is up to them.
Fairness ==
    /\ \A c \in Callers : WF_vars(Drain(c)) /\ WF_vars(Write(c)) /\ WF_vars(Close(c))
                            /\ WF_vars(Done(c))
    /\ \A i \in 1..MaxOps : /\ WF_vars(i \in DOMAIN acc /\ AccSelect(i))
                              /\ WF_vars(i \in DOMAIN acc /\ AccRead(i))
                              /\ WF_vars(i \in DOMAIN acc /\ Handoff(i))

FairSpec == Spec /\ Fairness

\* ------------------------------------------------------------------ claims
Alive(i) == acc[i].pc # "done"
Returned(c) == caller[c].pc = "returned" /\ caller[c].op \in Exchanges
SuccessMatches(raw) == cmd.Response # Nil /\ Contains(raw, cmd.Response)
FailureMatches(raw) == cmd.Error # Nil /\ Contains(raw, cmd.Error)

\* C1: every readUntil sends exactly one status on dataChan and then closes
\* it: it is never at a send after having sent, never closes without having
\* sent, has closed once it has sent, and a caller still waiting on the
\* channel has received nothing from it.
C1_OneStatusThenClose ==
    /\ \A i \in DOMAIN acc :
          /\ acc[i].sent <= 1
          /\ acc[i].pc = "send" => acc[i].sent = 0
          /\ acc[i].closed => acc[i].sent = 1
          /\ acc[i].sent = 1 => acc[i].closed
    /\ \A c \in Callers : caller[c].pc = "recv" => acc[caller[c].ch].sent = 0

\* C2: at most one readUntil goroutine is alive at any time.
C2_OneAccumulatorAlive == Cardinality({i \in DOMAIN acc : Alive(i)}) <= 1

\* C3: at most one task is at a read or write of the stream at any time, and
\* it holds the lock or is the readUntil of the caller that holds it and waits.
C3_StreamAccessUnderLock ==
    /\ \A c \in Callers : caller[c].pc \in {"drain", "write", "recv"} => mux = c
    /\ \A i \in DOMAIN acc :
          acc[i].pc = "read" =>
              /\ mux = acc[i].owner
              /\ caller[acc[i].owner].pc = "recv"
              /\ caller[acc[i].owner].ch = i
    /\ Cardinality({c \in Callers : caller[c].pc \in {"drain", "write"}}) +
       Cardinality({i \in DOMAIN acc : acc[i].pc = "read"}) <= 1

\* C4: when readUntil's select finds the Arbiter's context cancelled and the
\* command's deadline not elapsed, the status it chooses is the Cancelled
\* error: not nil, wrapping the cancellation cause, flagged neither timeout
\* nor temporary, and never the TimedOut error.
C4_CancelledOutcome ==
    [][\A i \in DOMAIN acc :
          (/\ acc[i].pc = "select" /\ ctxDone /\ ~acc[i].expired
           /\ acc'[i].pc = "send")
          => /\ acc'[i].st.err.kind = "Cancelled"
             /\ acc'[i].st.err.cause = "Canceled"
             /\ ~IsTimeout(acc'[i].st.err).value
             /\ ~IsTemporary(acc'[i].st.err).value]_vars

\* C5: a readUntil that has not sent its status and whose Arbiter's context
\* is cancelled eventually has a status to send or has sent it.
C5_CancelLeadsToTerminal ==
    \A i \in 1..MaxOps :
        (i \in DOMAIN acc /\ ctxDone /\ acc[i].sent = 0
            /\ acc[i].pc \in {"select", "read"})
        ~> (i \in DOMAIN acc /\ acc[i].pc \in {"send", "done"})

\* C6: a Response whose error is the TimedOut error of an elapsed deadline is
\* flagged both timeout and temporary.
C6_TimedOutFlags ==
    \A c \in Callers :
        (Returned(c) /\ caller[c].rsp.err.kind = "TimedOut"
            /\ caller[c].rsp.err.cause = "DeadlineExceeded")
        => IsTimeout(caller[c].rsp.err).value /\ IsTemporary(caller[c].rsp.err).value

\* C7: when readUntil leaves its read loop with a buffer the classifier calls
\* a Failure, the status it chooses carries the sentinel ErrErrorResponse
\* itself, flagged neither timeout nor temporary.
C7_FailureIsSentinel ==
    [][\A i \in DOMAIN acc :
          (/\ acc[i].pc = "read" /\ acc'[i].pc = "send"
           /\ acc'[i].st.err # ReadErr
           /\ cf(cmd, acc'[i].st.raw) = "Failure")
          => /\ acc'[i].st.err = ErrErrorResponse
             /\ ~IsTimeout(acc'[i].st.err).value
             /\ ~IsTemporary(acc'[i].st.err).value]_vars

\* C8: the failure criterion is tested before the success criterion: a status
\* whose bytes satisfy both criteria never has a nil error.
C8_FailureBeforeSuccess ==
    \A i \in DOMAIN acc :
        (/\ acc[i].pc = "send"
         /\ SuccessMatches(acc[i].st.raw) /\ FailureMatches(acc[i].st.raw))
        => acc[i].st.err # NoErr

\* readUntil is about to send a Failure for bytes that satisfy both criteria.
C8_Witness ==
    \E i \in DOMAIN acc :
        /\ acc[i].pc = "send"
        /\ SuccessMatches(acc[i].st.raw) /\ FailureMatches(acc[i].st.raw)
        /\ acc[i].st.err = FailureErr

\* C9: every Response of Simple or Control with a nil Error carries bytes
\* that satisfy the success criterion and not the failure criterion.
C9_NilErrorMeansSuccess ==
    \A c \in Callers :
        (Returned(c) /\ caller[c].rsp.err = NoErr)
        => /\ SuccessMatches(caller[c].rsp.bytes)
           /\ ~FailureMatches(caller[c].rsp.bytes)

\* C10: a Control whose Command.Bytes reports an error returns a Response with
\* that error and no bytes, and leaves the stream, the lock, the Arbiter's
\* context and the readUntil goroutines as they were.
C10_RenderErrorLeavesStreamUntouched ==
    [][\A c \in Callers :
          (/\ caller[c].pc = "idle" /\ caller'[c] # caller[c]
           /\ caller'[c].op = "Control"
           /\ Bytes(cmd, caller'[c].args).err # NoErr)
          => /\ caller'[c] = Return("Control", caller'[c].args,
                                    Response(Bytes(cmd, caller'[c].args).err, <<>>))
             /\ UNCHANGED <<stream, acc, mux, ctxDone>>]_vars

\* Control has returned a render error while bytes wait unread in the stream.
C10_Witness ==
    \E c \in Callers :
        /\ caller[c].pc = "returned" /\ caller[c].op = "Control"
        /\ caller[c].rsp.err \in {ErrBytesArgs, ErrBytesFormat}
        /\ stream.inbuf # <<>>

\* C11: when the write of the command fails or is short, Control and Simple
\* return a Response with an error that is not nil and with no bytes, and no
\* readUntil is started.
C11_WriteFailureAborts ==
    [][\A c \in Callers :
          (caller[c].pc = "write" /\ caller'[c].pc = "returned")
          => /\ caller'[c].rsp.err # NoErr
             /\ caller'[c].rsp.bytes = <<>>
             /\ acc' = acc]_vars

\* C12: once clearReadBuffer is over, none of the bytes the stream held when
\* the call began is left to read: the command is written, and readUntil
\* reads, only after they are gone.
C12_StaleBytesDiscarded ==
    \A c \in Callers : caller[c].pc \in {"write", "recv"} => stream.stale = 0

\* A call that began with unread bytes on the stream is about to write its
\* command.
C12_Witness ==
    \E c \in Callers :
        caller[c].pc = "write" /\ stream.had > 0 /\ stream.stale = 0

\* C13: an exchange drains, then writes, then accumulates: a readUntil is
\* started only by the step in which its caller's whole command is written (the
\* remote end has then received all of it), it starts with an empty buffer, and
\* until it has sent its status its caller waits for it.
C13_WriteBeforeAccumulate ==
    [][/\ Len(acc') > Len(acc) =>
              LET c == acc'[Len(acc')].owner
              IN  /\ caller[c].pc = "write" /\ caller'[c].pc = "recv"
                  /\ caller'[c].ch = Len(acc')
                  /\ acc'[Len(acc')].rcvd = <<>>
                  /\ acc'[Len(acc')].pc = "select"
                  /\ stream' = [Receive(stream, caller[c].out) EXCEPT !.had = 0]
       /\ \A i \in DOMAIN acc' :
              (acc'[i].sent = 0 /\ acc'[i].pc # "done")
              => /\ caller'[acc'[i].owner].pc = "recv"
                 /\ caller'[acc'[i].owner].ch = i]_vars

\* A readUntil that has not sent its status has read a byte.
C13_Witness ==
    \E i \in DOMAIN acc :
        acc[i].sent = 0 /\ acc[i].pc = "read" /\ acc[i].rcvd # <<>>

\* C14: a call whose Command has no failure pattern never ends in Failure,
\* and one whose Command has no success pattern never ends with a nil error;
\* with neither pattern it ends only by timeout, cancellation or a stream
\* error.
C14_AbsentPatternNeverMatches ==
    \A c \in Callers :
        Returned(c) =>
            /\ cmd.Error = Nil => caller[c].rsp.err # FailureErr
            /\ cmd.Response = Nil => caller[c].rsp.err # NoErr
            /\ (cmd.Error = Nil /\ cmd.Response = Nil) =>
                   \/ caller[c].rsp.err.kind \in {"TimedOut", "Cancelled"}
                   \/ caller[c].rsp.err \in
                          {ReadErr, ErrWrite, ErrStreamCtx, ErrBytesArgs, ErrBytesFormat}
                   \/ caller[c].rsp.err.kind = "unable to write full message"

\* The stream is silent and alive: nothing cancelled, the remote end has not
\* hung up, and no byte has arrived, is to arrive or has been read by i.
Silent(i) ==
    /\ ~ctxDone /\ ~stream.ctxDone /\ stream.conn /\ ~stream.peerClosed
    /\ stream.inbuf = <<>> /\ stream.pending = <<>> /\ acc[i].rcvd = <<>>

\* C15: against a silent stream, a Simple with neither marker hands back its
\* status only once its deadline has passed, and the status is an error
\* flagged timeout.
C15_SilentStreamTimesOut ==
    [][\A i \in DOMAIN acc :
          (/\ acc[i].pc = "send" /\ acc[i].sent = 0 /\ acc'[i].pc # "send"
           /\ caller[acc[i].owner].op = "Simple"
           /\ cmd.Response = Nil /\ cmd.Error = Nil
           /\ Silent(i))
          => /\ acc[i].expired
             /\ acc[i].st.err # NoErr
             /\ IsTimeout(acc[i].st.err).value]_vars

\* C16: the buffer of a call's accumulator grows only by the byte a read took
\* from the front of the stream, appended at the end; every status it sends
\* carries that whole buffer, whatever the error; and the Response the caller
\* returns is that status.
C16_StatusCarriesBytesRead ==
    [][\A i \in DOMAIN acc' :
          IF i \notin DOMAIN acc THEN acc'[i].rcvd = <<>>
          ELSE acc[i].sent = 0 =>
               /\ (acc[i].pc # "done" /\ acc'[i].pc # "done") =>
                     \/ acc'[i].rcvd = acc[i].rcvd
                     \/ /\ acc[i].pc = "read" /\ stream.inbuf # <<>>
                        /\ acc'[i].rcvd = Append(acc[i].rcvd, Head(stream.inbuf))
                        /\ stream'.inbuf = Tail(stream.inbuf)
               /\ (acc[i].pc # "send" /\ acc'[i].pc = "send") =>
                     acc'[i].st.raw = acc[i].rcvd
               /\ (acc[i].pc = "send" /\ acc'[i].pc # "send") =>
                     /\ caller'[acc[i].owner].pc = "returned"
                     /\ caller'[acc[i].owner].rsp.bytes = acc[i].rcvd
                     /\ caller'[acc[i].owner].rsp.err = acc[i].st.err]_vars

\* A call that timed out returns the bytes it received, none of them a marker.
C16_Witness ==
    \E c \in Callers :
        /\ Returned(c)
        /\ caller[c].rsp.err.kind = "TimedOut"
        /\ caller[c].rsp.bytes # <<>>
        /\ ~SuccessMatches(caller[c].rsp.bytes)
        /\ ~FailureMatches(caller[c].rsp.bytes)

\* C17: a Close made right after a Close that returned nil returns nil.
C17_CloseAgainReturnsNil ==
    [][\A c \in Callers :
          (/\ caller[c].pc = "lock" /\ caller'[c].pc = "returned"
           /\ caller[c].rsp.set /\ caller[c].rsp.err = NoErr)
          => caller'[c].rsp.err = NoErr]_vars

\* C18: once Close has been called the Arbiter's context is cancelled; and a
\* Control or Simple that hands back its status while a Close waits for the
\* lock, its own deadline not passed, ends Cancelled.
C18_CloseCancelsInFlight ==
    [][/\ \A c \in Callers :
             (caller'[c].op = "Close" /\ caller'[c].pc \in {"lock", "returned"}) => ctxDone'
       /\ \A i \in DOMAIN acc :
             (/\ acc[i].pc = "send" /\ acc'[i].pc # "send" /\ acc[i].sent = 0
              /\ ~acc[i].expired
              /\ \E c \in Callers : caller[c].op = "Close" /\ caller[c].pc = "lock")
             => acc[i].st.err.kind = "Cancelled"]_vars

\* A ReadByte is made in this step: by readUntil, by clearReadBuffer or by Read.
ReadStep ==
    \/ \E i \in DOMAIN acc : acc[i].pc = "read" /\ acc'[i] # acc[i]
    \/ \E c \in Callers : caller[c].pc = "drain" /\ caller'[c].pc \in {"drain", "write"}
    \/ \E c \in Callers : /\ caller[c].pc = "idle" /\ caller'[c].pc = "returned"
                          /\ caller'[c].op = "Read"

\* C19: once the Arbiter's context is cancelled the stream is closed, so a read
\* made after the cancellation (no Close being on its way to close the stream
\* itself) finds the stream closed and does not wait for bytes.
C19_CancelClosesStream ==
    [][(/\ ctxDone
        /\ \A c \in Callers : caller[c].pc # "lock"
        /\ ReadStep)
       => (stream.ctxDone \/ ~stream.conn)]_vars

\* The cat/dog round trip as the test runs it: the Command's success marker is
\* the reply to Cat and its failure marker the reply to anything else.
CatCommand == Command(Meow, Woof, Nil)

\* Accumulator i belongs to one of a sequence of Simple calls with Cat or Dog,
\* the only calls made on the Arbiter so far; nothing is cancelled, the remote
\* end is there, no earlier call ran out of time, and the whole reply to this
\* call has arrived and been read.
CatDogSequence(i) ==
    /\ cmd = CatCommand
    /\ ~ctxDone /\ ~stream.ctxDone /\ stream.conn /\ ~stream.peerClosed
    /\ ops = Len(acc)
    /\ \A j \in DOMAIN acc : acc[j].out \in {Cat, Dog}
    /\ \A j \in 1..(i - 1) : ~acc[j].expired
    /\ stream.pending = <<>> /\ stream.inbuf = <<>>

\* C20: in such a sequence every call returns a nil error exactly when its
\* command is Cat.
C20_CatMeowsDogWoofs ==
    [][\A i \in DOMAIN acc :
          (/\ acc[i].pc = "send" /\ acc'[i].pc # "send" /\ acc[i].sent = 0
           /\ CatDogSequence(i))
          => /\ caller'[acc[i].owner].pc = "returned"
             /\ (caller'[acc[i].owner].rsp.err = NoErr) <=> (acc[i].out = Cat)]_vars

\* ------------------------------------------- the package's functions, alone
\* The functions of the package that touch no Arbiter, called directly as the
\* tests call them: a caller calls one, holds what it returned, and calls again.
BytesCall(c) ==
    /\ NoneReturned
    /\ caller[c].pc = "idle"
    /\ \E args \in BytesArgLists :
          caller' = [caller EXCEPT ![c] =
              Return("Bytes", args, Response(Bytes(cmd, args).err, Bytes(cmd, args).bytes))]
    /\ UNCHANGED <<rev, cmd, mux, ctxDone, acc, stream, ops>>

CallInit ==
    /\ rev = "r2"
    /\ cmd \in BytesCommands
    /\ mux = Free
    /\ ctxDone = FALSE
    /\ caller = [c \in Callers |-> Idle]
    /\ acc = <<>>
    /\ stream = StreamInit
    /\ ops = 0

\* The errors the tests hand to IsTimeout and IsTemporary, and those the
\* package builds: nil, plain errors, and net.Errors with each pair of flags.
FlagErrors ==
    {NoErr, plainErr("Boring error", NoCause), ErrBytesArgs}
    \cup {newErr(temporary, timeout, "wwoohoo", NoCause) :
              temporary \in BOOLEAN, timeout \in BOOLEAN}

\* What a caller holds of a call that returned a bool or panicked.
Outcome(r) == [set |-> TRUE, panic |-> r.panic, value |-> r.value]

IsTimeoutCall(c) ==
    /\ NoneReturned
    /\ caller[c].pc = "idle"
    /\ \E e \in FlagErrors :
          caller' = [caller EXCEPT ![c] = Return("IsTimeout", <<e>>, Outcome(IsTimeout(e)))]
    /\ UNCHANGED <<rev, cmd, mux, ctxDone, acc, stream, ops>>

IsTemporaryCall(c) ==
    /\ NoneReturned
    /\ caller[c].pc = "idle"
    /\ \E e \in FlagErrors :
          caller' = [caller EXCEPT ![c] =
                        Return("IsTemporary", <<e>>, Outcome(IsTemporary(e)))]
    /\ UNCHANGED <<rev, cmd, mux, ctxDone, acc, stream, ops>>

\* ------------------------------------------------------- Commands.Contains
\* The longest list of names handed to Contains.
MaxNames == 3

\* Keys of command sets, as in TestCommands_Contains.
Names == {"a", "b", "c"}

\* A Commands value: the nil map, or a map with the given keys.
CommandSets ==
    {[nil |-> TRUE, keys |-> {}]} \cup {[nil |-> FALSE, keys |-> K] : K \in SUBSET Names}

\* The variadic arguments of Contains.
NameLists == UNION {[1..n -> Names] : n \in 0..MaxNames}

\* Contains answering for any one of the names, as its comment has it.
CommandsContains_Any(c, named) ==
    ~c.nil /\ \E i \in 1..Len(named) : named[i] \in c.keys

\* The loop of Contains from the i-th name on.
RECURSIVE AllKeys(_, _, _)
AllKeys(c, named, i) ==
    IF i > Len(named) THEN TRUE
    ELSE IF named[i] \notin c.keys THEN FALSE
    ELSE AllKeys(c, named, i + 1)

\* Commands.Contains.
CommandsContains(c, named) ==
    IF c.nil \/ Len(named) = 0 THEN FALSE ELSE AllKeys(c, named, 1)

ContainsCall(c) ==
    /\ NoneReturned
    /\ caller[c].pc = "idle"
    /\ \E set \in CommandSets, named \in NameLists :
          caller' = [caller EXCEPT ![c] =
              Return("Contains", <<set, named>>,
                     [set |-> TRUE, panic |-> FALSE, value |-> CommandsContains(set, named)])]
    /\ UNCHANGED <<rev, cmd, mux, ctxDone, acc, stream, ops>>

CallNext ==
    \/ \E c \in Callers : BytesCall(c)
    \/ \E c \in Callers : IsTimeoutCall(c)
    \/ \E c \in Callers : IsTemporaryCall(c)
    \/ \E c \in Callers : ContainsCall(c)
    \/ \E c \in Callers : Done(c)

CallSpec == CallInit /\ [][CallNext]_vars

\* A call of Command.Bytes by c has returned.
BytesReturned(c) == caller[c].pc = "returned" /\ caller[c].op = "Bytes"

\* C21: a Command with a nil CommandRegexp never renders with ErrBytesFormat:
\* Bytes returns no error or ErrBytesArgs.
C21_NilRegexpNeverMismatch ==
    \A c \in Callers :
        (BytesReturned(c) /\ cmd.CommandRegexp = Nil)
        => caller[c].rsp.err \in {NoErr, ErrBytesArgs}

C21_Witness ==
    \E c \in Callers :
        /\ BytesReturned(c) /\ cmd.CommandRegexp = Nil
        /\ caller[c].rsp.err = ErrBytesArgs
        /\ Len(caller[c].args) = MaxArgs

\* C22: Bytes returns ErrBytesArgs exactly when the prototype did not format
\* with the arguments, whatever CommandRegexp says of the result, and it returns
\* the rendered bytes with either error.
C22_ArgsErrorIffFormatFails ==
    \A c \in Callers :
        BytesReturned(c) =>
            /\ (caller[c].rsp.err = ErrBytesArgs)
                   <=> ~Formats(cmd.Prototype, caller[c].args)
            /\ caller[c].rsp.bytes = Sprintf(cmd.Prototype, caller[c].args)

\* C23: IsTimeout and IsTemporary panic on a nil error; on any other error
\* they return, with the error's own flag if it is a net.Error and false if
\* it is not.
C23_FlagsOrPanic ==
    \A c \in Callers :
        (caller[c].pc = "returned" /\ caller[c].op \in {"IsTimeout", "IsTemporary"}) =>
            LET e == caller[c].args[1]
                flag == IF caller[c].op = "IsTimeout" THEN e.timeout ELSE e.temporary
            IN  IF e = NoErr THEN caller[c].rsp.panic
                ELSE /\ ~caller[c].rsp.panic
                     /\ caller[c].rsp.value = (IF e.net THEN flag ELSE FALSE)

\* IsTimeout has panicked on nil.
C23_Witness ==
    /\ caller["c1"].pc = "returned" /\ caller["c1"].op = "IsTimeout"
    /\ caller["c1"].args[1] = NoErr /\ caller["c1"].rsp.panic

\* ------------------------------------------------------- the stream, alone
\* A NetClient or a SerialClient used directly, as their tests use them: a
\* caller reads, writes, opens or closes it and holds what the call returned
\* (for a write, the bytes that were written).
StreamRead(c) ==
    /\ NoneReturned
    /\ caller[c].pc = "idle"
    /\ LET r == ReadByte(stream)
       IN  /\ stream' = r.s
           /\ caller' = [caller EXCEPT ![c] =
                  Return("Read", <<>>, Response(r.err, IF r.err = NoErr THEN r.b ELSE <<>>))]
    /\ UNCHANGED <<rev, cmd, mux, ctxDone, acc, ops>>

StreamWrite(c) ==
    /\ NoneReturned
    /\ caller[c].pc = "idle"
    /\ \E msg \in {Cat, Dog} :
          /\ CanReply(stream, msg)
          /\ \E w \in WriteOutcomes(stream, msg) :
                /\ stream' = w.s
                /\ caller' = [caller EXCEPT ![c] =
                       Return("Write", <<>>, Response(w.err, SubSeq(msg, 1, w.n)))]
    /\ UNCHANGED <<rev, cmd, mux, ctxDone, acc, ops>>

StreamOpenCall(c) ==
    /\ NoneReturned
    /\ caller[c].pc = "idle"
    /\ stream' = StreamOpen(stream).s
    /\ caller' = [caller EXCEPT ![c] =
                      Return("Open", <<>>, Response(StreamOpen(stream).err, <<>>))]
    /\ UNCHANGED <<rev, cmd, mux, ctxDone, acc, ops>>

StreamCloseCall(c) ==
    /\ NoneReturned
    /\ caller[c].pc = "idle"
    /\ stream' = StreamClose(stream)
    /\ \E e \in StreamCloseErrs(stream) :
          caller' = [caller EXCEPT ![c] = Return("Close", <<>>, Response(e, <<>>))]
    /\ UNCHANGED <<rev, cmd, mux, ctxDone, acc, ops>>

StreamSpecInit ==
    /\ rev = "r2"
    /\ cmd = Command(Nil, Nil, Nil)
    /\ mux = Free
    /\ ctxDone = FALSE
    /\ caller = [c \in Callers |-> Idle]
    /\ acc = <<>>
    /\ stream \in {[StreamInit EXCEPT !.kind = k] : k \in Kinds}
    /\ ops = 0

StreamNext ==
    \/ \E c \in Callers : StreamRead(c)
    \/ \E c \in Callers : StreamWrite(c)
    \/ \E c \in Callers : StreamOpenCall(c)
    \/ \E c \in Callers : StreamCloseCall(c)
    \/ \E c \in Callers : Done(c)
    \/ Arrive
    \/ PeerClose
    \/ CancelParent

StreamSpec == StreamSpecInit /\ [][StreamNext]_vars

\* C24: a Read or Write made on a stream whose context is cancelled returns no
\* bytes and an error, and an Open made on it returns an error.
C24_CancelledStreamFailsFast ==
    [][\A c \in Callers :
          (/\ stream.ctxDone
           /\ caller[c].pc = "idle" /\ caller'[c].pc = "returned"
           /\ caller'[c].op \in {"Read", "Write", "Open"})
          => /\ caller'[c].rsp.err # NoErr
             /\ caller'[c].rsp.bytes = <<>>]_vars

\* A SerialClient with no port open, its context cancelled, has refused an Open.
C24_Witness ==
    /\ stream.kind = "serial" /\ stream.ctxDone /\ ~stream.conn
    /\ \E c \in Callers :
          /\ caller[c].pc = "returned" /\ caller[c].op = "Open"
          /\ caller[c].rsp.err = ErrStreamCtx

\* C25: a Read, Write, Open or Close of the Arbiter is made with the lock free
\* for it to take, does to the stream what the stream's own operation of that
\* name does, once, and returns that operation's result.
C25_PassThrough ==
    [][\A c \in Callers :
          (/\ caller[c].pc \in {"idle", "lock"} /\ caller'[c].pc = "returned"
           /\ caller'[c].op \in {"Read", "Write", "Open", "Close"})
          => /\ mux = Free /\ mux' = Free
             /\ caller'[c].op = "Read" =>
                   /\ stream' = ReadByte(stream).s
                   /\ caller'[c].rsp.err = ReadByte(stream).err
             /\ caller'[c].op = "Write" =>
                   \E w \in WriteOutcomes(stream, Dog) :
                       stream' = w.s /\ caller'[c].rsp.err = w.err
             /\ caller'[c].op = "Open" =>
                   /\ stream' = StreamOpen(stream).s
                   /\ caller'[c].rsp.err = StreamOpen(stream).err
             /\ caller'[c].op = "Close" =>
                   /\ stream' = StreamClose(stream)
                   /\ caller'[c].rsp.err = StreamCloseErr(stream)]_vars

\* C26: while readUntil runs its buffer only grows at the end, and each time it
\* leaves the read loop to classify, the verdict is the classifier's verdict on
\* the whole buffer: Failure and Success end the accumulation with their
\* status, Insufficient sends it round the loop again.
C26_WholeBufferClassified ==
    [][\A i \in DOMAIN acc :
          /\ acc'[i].pc # "done" => IsPrefix(acc[i].rcvd, acc'[i].rcvd)
          /\ (/\ acc[i].pc = "read" /\ acc'[i].pc \in {"send", "select"}
              /\ acc'[i].st.err # ReadErr)
             => LET verdict == cf(cmd, acc[i].rcvd)
                IN  /\ verdict = "Failure" =>
                          acc'[i].pc = "send" /\ acc'[i].st.err = FailureErr
                    /\ verdict = "Success" =>
                          acc'[i].pc = "send" /\ acc'[i].st.err = NoErr
                    /\ verdict = "Insufficient" => acc'[i].pc = "select"]_vars

\* The first byte of a two-byte success marker has been read and classified as
\* insufficient while the second byte has yet to arrive.
C26_Witness ==
    \E i \in DOMAIN acc :
        /\ cmd.Response = Reply
        /\ acc[i].pc = "select" /\ acc[i].rcvd = <<Reply[1]>>
        /\ stream.pending = <<Reply[2]>>

\* C27: a read that fails with end-of-stream or with a timeout adds nothing to
\* the buffer and is no fatal error, and readUntil does not read again before
\* it has been round its select: it leaves the read loop.
C27_FailedReadRechecksDeadline ==
    [][\A i \in DOMAIN acc :
          (/\ acc[i].pc = "read" /\ acc'[i] # acc[i]
           /\ ReadByte(stream).err \in {ErrEOF, ErrIOTimeout})
          => /\ acc'[i].rcvd = acc[i].rcvd
             /\ acc'[i].pc \in {"select", "send"}
             /\ acc'[i].st.err # ReadErr]_vars

\* C28: a read of readUntil that fails with an error that is neither
\* end-of-stream nor a timeout ends the accumulation with a status whose error
\* is flagged neither temporary nor timeout.
C28_FatalReadErrorFlags ==
    [][\A i \in DOMAIN acc :
          (/\ acc[i].pc = "read" /\ acc'[i] # acc[i]
           /\ ReadByte(stream).err \notin {NoErr, ErrEOF, ErrIOTimeout})
          => /\ acc'[i].pc = "send"
             /\ acc'[i].st.err # NoErr
             /\ ~IsTimeout(acc'[i].st.err).value
             /\ ~IsTemporary(acc'[i].st.err).value]_vars

\* C29: the error of a Control or Simple that ends on a write that returned an
\* error (no short write being possible) is that error, and a read of readUntil that fails with
\* an error that is neither end-of-stream nor a timeout ends the accumulation
\* with that very error.
C29_StreamErrorAsIs ==
    [][/\ \A c \in Callers :
             (/\ caller[c].pc = "write" /\ caller'[c].pc = "returned"
              /\ \A w \in WriteOutcomes(stream, caller[c].out) :
                     w.err = NoErr => w.n = Len(caller[c].out))
             => /\ caller'[c].rsp.err # NoErr
                /\ caller'[c].rsp.err \in
                       {w.err : w \in WriteOutcomes(stream, caller[c].out)}
       /\ \A i \in DOMAIN acc :
             (/\ acc[i].pc = "read" /\ acc'[i] # acc[i]
              /\ ReadByte(stream).err \notin {NoErr, ErrEOF, ErrIOTimeout})
             => /\ acc'[i].pc = "send"
                /\ acc'[i].st.err = ReadByte(stream).err]_vars

\* ------------------------------------------------------------ empty markers
\* The Arbiter with the markers Simple may be given besides nil and text: an
\* empty, non-nil slice as the success marker or as the failure marker.
Empty == <<>>
EmptyMarkerCommands == {Command(Empty, Nil, Nil), Command(Nil, Empty, Nil)}

EmptyMarkerInit ==
    /\ rev \in Revs
    /\ cmd \in EmptyMarkerCommands
    /\ mux = Free
    /\ ctxDone = FALSE
    /\ caller = [c \in Callers |-> Idle]
    /\ acc = <<>>
    /\ stream = StreamInit
    /\ ops = 0

EmptyMarkerSpec == EmptyMarkerInit /\ [][Next]_vars

\* C30: the status readUntil sends for a Simple whose success marker is empty
\* has no nil error, and for one whose failure marker is empty it is no
\* Failure.
C30_EmptyMarkerIsNoCriterion ==
    \A i \in DOMAIN acc :
        (acc[i].pc = "send" /\ acc[i].sent = 0 /\ caller[acc[i].owner].op = "Simple")
        => /\ cmd.Response = Empty => acc[i].st.err # NoErr
           /\ cmd.Error = Empty => acc[i].st.err # FailureErr

\* ---------------------------------------------------------------- C31
\* The step by which caller c's Control or Simple returns, the call having
\* begun after the Arbiter's context was cancelled.
LateReturn(c) ==
    /\ caller'[c].pc = "returned"
    /\ caller'[c].op \in Exchanges
    /\ \/ caller[c].pc = "idle" /\ ctxDone
       \/ caller[c].pc \in {"drain", "write", "recv"} /\ caller[c].late

\* C31: a Control or Simple call begun after the Arbiter's context was
\* cancelled returns a non-nil error and returns no bytes, whatever the
\* stream holds.
C31_LateCallFails ==
    [][\A c \in Callers :
          LateReturn(c) => /\ caller'[c].rsp.err # NoErr
                           /\ caller'[c].rsp.bytes = <<>>]_vars

C32_NoRetry ==
    [][/\ \A c \in Callers :
             (caller[c].pc \in {"drain", "write", "recv"}
              /\ Len(stream'.pending) > Len(stream.pending))
                 => caller[c].pc = "write" /\ caller'[c].pc # "write"
       /\ \A c \in Callers :
             caller[c].pc = "recv" => caller'[c].pc \in {"recv", "returned"}
       /\ Len(acc') # Len(acc)
            => /\ Len(acc') = Len(acc) + 1
               /\ \E c \in Callers : /\ caller[c].pc = "write" /\ caller'[c].pc = "recv"
                                      /\ acc'[Len(acc')].owner = c
       /\ \A i \in DOMAIN acc :
             /\ (acc[i].pc = "send" /\ acc[i].st.err # NoErr)
                    => acc'[i].pc \in {"send", "done"}
             /\ acc[i].pc = "done" => acc'[i] = acc[i]]_vars

\* A call has written its command, its accumulator has sent an error status
\* and exited, and the call has returned that error.
C32_Witness ==
    \E c \in Callers, i \in DOMAIN acc :
        /\ Returned(c)
        /\ caller[c].rsp.err # NoErr
        /\ acc[i].owner = c
        /\ acc[i].pc = "done"
        /\ acc[i].sent = 1
        /\ \A j \in DOMAIN acc : j > i => acc[j].owner # c

\* ---------------------------------------------------------------- C33
\* C33: while the parent context is alive an Open of the stream is not
\* refused, whatever Close came before it: it returns nil and leaves the
\* stream connected and usable.
C33_ReopenAfterClose ==
    [][\A c \in Callers :
          (/\ caller[c].pc = "idle"
           /\ caller'[c].pc = "returned"
           /\ caller'[c].op = "Open"
           /\ ~ctxDone)
          => /\ caller'[c].rsp.err = NoErr
             /\ stream'.conn
             /\ ~stream'.ctxDone]_vars

\* ---------------------------------------------------------------- C34
\* The step by which caller c's call of the method op on the stream returns.
StreamCallReturns(c, op) ==
    caller[c].pc = "idle" /\ caller'[c].pc = "returned" /\ caller'[c].op = op

\* C34: Close of a SerialClient leaves it without a port handle, whether the
\* port closed, refused to close, or the context was already cancelled; Close
\* of a client without a handle on a live context returns nil; Read and Write
\* of a client without a handle return no bytes and a non-nil error.
C34_SerialCloseDropsHandle ==
    [][\A c \in Callers :
          stream.kind = "serial" =>
             /\ StreamCallReturns(c, "Close") => ~stream'.conn
             /\ (StreamCallReturns(c, "Close") /\ ~stream.conn /\ ~stream.ctxDone)
                    => caller'[c].rsp.err = NoErr
             /\ ((StreamCallReturns(c, "Read") \/ StreamCallReturns(c, "Write"))
                 /\ ~stream.conn)
                    => /\ caller'[c].rsp.err # NoErr
                       /\ caller'[c].rsp.bytes = <<>>]_vars

\* A SerialClient whose context is cancelled has been closed: Close returned
\* the context's error and the handle is gone.
C34_Witness ==
    \E c \in Callers :
        /\ stream.kind = "serial"
        /\ caller[c].pc = "returned" /\ caller[c].op = "Close"
        /\ caller[c].rsp.err = ErrStreamCtx
        /\ ~stream.conn

\* ---------------------------------------------------------------- C35
\* C35: Close of a stream on a live context returns a non-nil error only when
\* the underlying port or connection could not be closed.
C35_CloseErrorOnlyOnFailure ==
    [][\A c \in Callers :
          (StreamCallReturns(c, "Close") /\ ~stream.ctxDone /\ caller'[c].rsp.err # NoErr)
          => caller'[c].rsp.err = ErrPortClose]_vars

\* ---------------------------------------------------------------- C37
\* C37: the lock is held only by a caller that is inside Control or Simple,
\* between its Lock and its return: a caller whose Control, Simple, Read,
\* Write, Open or Close has returned does not hold it.
C37_ReturnReleasesLock ==
    \A c \in Callers : mux = c => caller[c].pc \in {"drain", "write", "recv"}

\* A Control or Simple has returned on a failed write, before any accumulator
\* was started, and the lock is free.
C37_Witness ==
    \E c \in Callers :
        /\ Returned(c)
        /\ caller[c].rsp.err \notin {NoErr, ErrBytesArgs, ErrBytesFormat}
        /\ acc = <<>>
        /\ mux = Free

\* ---------------------------------------------------------------- C38
\* C38: no readUntil outlives its call: an accumulator whose caller is no
\* longer waiting on its channel has exited, and an accumulator that has sent
\* its status takes no further step.
C38_AccumulatorExits ==
    [][\A i \in DOMAIN acc :
          /\ (caller'[acc[i].owner].pc # "recv" \/ caller'[acc[i].owner].ch # i)
                 => acc'[i].pc = "done"
          /\ acc[i].sent > 0 => acc'[i] = acc[i]]_vars

\* ------------------------------------------------- a stream that never rests
\* The longest run of unasked-for bytes one accumulator is given.
MaxNoise == 2

\* A byte of a device that sends without being asked: it is part of no reply
\* and of no marker.
Noise == <<"x">>

\* The remote end sends a byte of its own accord as soon as the last one has
\* been read, so that a read never finds the stream empty.
Babble ==
    /\ NoneReturned
    /\ stream.conn /\ ~stream.peerClosed /\ ~stream.ctxDone
    /\ stream.inbuf = <<>>
    /\ \A i \in DOMAIN acc : Len(acc[i].rcvd) < MaxNoise
    /\ stream' = [stream EXCEPT !.inbuf = Noise]
    /\ UNCHANGED <<rev, cmd, mux, ctxDone, caller, acc, ops>>

\* Control and Simple on a stream whose remote end answers and also sends
\* unasked.
NoisyNext ==
    \/ \E c \in Callers : ControlBegin(c)
    \/ \E c \in Callers : SimpleBegin(c)
    \/ \E c \in Callers : Drain(c)
    \/ \E c \in Callers : Write(c)
    \/ \E c \in Callers : Done(c)
    \/ \E i \in DOMAIN acc : AccSelect(i)
    \/ \E i \in DOMAIN acc : AccRead(i)
    \/ \E i \in DOMAIN acc : Handoff(i)
    \/ \E i \in DOMAIN acc : Deadline(i)
    \/ Arrive
    \/ Babble

\* The goroutines keep running, and a finite timeout passes: the deadline of a
\* readUntil that comes to its select again and again does pass at one of them.
NoisyFairness ==
    /\ Fairness
    /\ \A i \in 1..MaxOps : SF_vars(i \in DOMAIN acc /\ Deadline(i))

NoisyFairSpec == Init /\ [][NoisyNext]_vars /\ NoisyFairness

\* ---------------------------------------------------------------- C39
\* C39: a Control or Simple call returns, even on a stream that keeps
\* delivering bytes: a caller inside a call leads to that caller returned.
C39_NoisyCallTerminates ==
    \A c \in Callers :
        (caller[c].pc \in {"drain", "write", "recv"}) ~> (caller[c].pc = "returned")


====
